---- MODULE Spec2Model ----
(***************************************************************************)
(* A model of refl1d/resolution.py: the resolution calculations of a       *)
(* reflectometer (angle/Q conversion, propagation of angular divergence    *)
(* and wavelength dispersion to Q resolution, logarithmic wavelength bins, *)
(* slit divergence and the fixed/opening/fixed slit policy).               *)
(*                                                                         *)
(* Numbers.  The code computes in IEEE doubles; the model computes the     *)
(* same formulas exactly, over the reals the formulas denote:              *)
(*   - a rational is a pair <<n, d>> in lowest terms, d > 0;               *)
(*   - a finite number is a Laurent polynomial in the two constants        *)
(*     pi (numpy.pi) and K = sqrt(log(256)) (_FWHM_scale) with rational    *)
(*     coefficients, or a signed square root of one;                       *)
(*   - inf, -inf and nan are the IEEE special values numpy produces, and   *)
(*     a raised Python exception is a value of its own.                    *)
(* Rounding error of the doubles is not modelled.                          *)
(***************************************************************************)
EXTENDS Integers, Sequences, FiniteSets, TLC

VARIABLES op, args, res

vars == <<op, args, res>>

----------------------------------------------------------------------------
(* Integers and rationals *)

IAbs(n) == IF n < 0 THEN -n ELSE n

RECURSIVE Gcd(_, _)
Gcd(a, b) == IF b = 0 THEN a ELSE Gcd(b, a % b)

\* The rational n/d (d # 0) in lowest terms with a positive denominator.
Rat(n, d) ==
    LET g == Gcd(IAbs(n), IAbs(d))
        s == IF d < 0 THEN -1 ELSE 1
    IN  <<(s * n) \div g, IAbs(d) \div g>>

RInt(n) == <<n, 1>>
RZero == <<0, 1>>
ROne == <<1, 1>>
RNeg(a) == <<-a[1], a[2]>>
RInv(a) == IF a[1] < 0 THEN <<-a[2], -a[1]>> ELSE <<a[2], a[1]>>

\* a + b over the least common denominator, a * b with the common factors
\* cancelled first: the intermediate products stay small.
RAddG(a, b, g) == Rat(a[1] * (b[2] \div g) + b[1] * (a[2] \div g), (a[2] \div g) * b[2])
RAdd(a, b) == RAddG(a, b, Gcd(a[2], b[2]))
RSub(a, b) == RAdd(a, RNeg(b))
RMulG(a, b, g, h) ==
    <<(a[1] \div g) * (b[1] \div h), (a[2] \div h) * (b[2] \div g)>>
RMul(a, b) ==
    IF a[1] = 0 \/ b[1] = 0 THEN RZero
    ELSE RMulG(a, b, Gcd(IAbs(a[1]), b[2]), Gcd(IAbs(b[1]), a[2]))
RDiv(a, b) == RMul(a, RInv(b))
RSign(a) == IF a[1] > 0 THEN 1 ELSE IF a[1] < 0 THEN -1 ELSE 0
RLt(a, b) == RSign(RSub(a, b)) < 0

RECURSIVE RPow(_, _)
RPow(a, n) == IF n = 0 THEN ROne ELSE RMul(a, RPow(a, n - 1))

\* The integer square root of n >= 0 (the largest r with r*r <= n).
RECURSIVE ISqrtFrom(_, _, _)
ISqrtFrom(n, lo, hi) ==
    IF lo >= hi THEN lo
    ELSE IF ((lo + hi + 1) \div 2) * ((lo + hi + 1) \div 2) <= n
    THEN ISqrtFrom(n, (lo + hi + 1) \div 2, hi)
    ELSE ISqrtFrom(n, lo, ((lo + hi + 1) \div 2) - 1)

ISqrt(n) == ISqrtFrom(n, 0, IF n < 46340 THEN n ELSE 46340)
RIsSquare(a) == a[1] >= 0 /\ ISqrt(a[1]) * ISqrt(a[1]) = a[1]
                    /\ ISqrt(a[2]) * ISqrt(a[2]) = a[2]
RSqrt(a) == <<ISqrt(a[1]), ISqrt(a[2])>>

----------------------------------------------------------------------------
(* Laurent polynomials in pi and K: a set of terms c * pi^ep * K^ek with    *)
(* distinct exponents and non-zero coefficients (so equal sets are equal   *)
(* polynomials).                                                           *)

Term(c, ep, ek) == [c |-> c, ep |-> ep, ek |-> ek]

PolyConst(r) == IF r = RZero THEN {} ELSE {Term(r, 0, 0)}

\* The sum of the coefficients of the terms of S (all of one exponent).
RECURSIVE CoefSum(_)
CoefSum(S) ==
    IF S = {} THEN RZero
    ELSE RAdd((CHOOSE t \in S : TRUE).c, CoefSum(S \ {CHOOSE t \in S : TRUE}))

\* P and Q are tagged apart so that equal terms of the two are both counted.
PolyAdd(P, Q) ==
    LET S == {<<1, t>> : t \in P} \cup {<<2, t>> : t \in Q}
    IN  {t \in {Term(RAdd(CoefSum({u[2] : u \in {v \in S : v[1] = 1 /\ v[2].ep = e[1] /\ v[2].ek = e[2]}}),
                         CoefSum({u[2] : u \in {v \in S : v[1] = 2 /\ v[2].ep = e[1] /\ v[2].ek = e[2]}})),
                    e[1], e[2]) : e \in {<<u[2].ep, u[2].ek>> : u \in S}} : t.c # RZero}

PolyNeg(P) == {Term(RNeg(t.c), t.ep, t.ek) : t \in P}

\* The products of the terms of P and Q, tagged by their factors, summed.
PolyMul(P, Q) ==
    LET S == {<<s, t>> : s \in P, t \in Q}
    IN  {t \in {Term(CoefSum({Term(RMul(u[1].c, u[2].c), u[1], u[2]) :
                                 u \in {v \in S : v[1].ep + v[2].ep = e[1]
                                                  /\ v[1].ek + v[2].ek = e[2]}}),
                    e[1], e[2]) : e \in {<<u[1].ep + u[2].ep, u[1].ek + u[2].ek>> : u \in S}} :
            t.c # RZero}

IsMono(P) == Cardinality(P) = 1
TheTerm(P) == CHOOSE t \in P : TRUE

\* Rational bounds of pi (3.14159...) and K (2.35482...), for deciding the
\* sign of a polynomial whose terms have both signs.
PiLo == Rat(157, 50)
PiHi == Rat(22, 7)
KLo == Rat(7, 3)
KHi == Rat(12, 5)

PowE(b, e) == IF e >= 0 THEN RPow(b, e) ELSE RInv(RPow(b, -e))

\* A bound of the term t: an upper bound when up, a lower bound otherwise.
TermBound(t, up) ==
    RMul(t.c, RMul(PowE(IF (RSign(t.c) > 0) = (up = (t.ep >= 0)) THEN PiHi ELSE PiLo, t.ep),
                   PowE(IF (RSign(t.c) > 0) = (up = (t.ek >= 0)) THEN KHi ELSE KLo, t.ek)))

RECURSIVE SumBound(_, _)
SumBound(P, up) ==
    IF P = {} THEN RZero
    ELSE RAdd(TermBound(CHOOSE t \in P : TRUE, up), SumBound(P \ {CHOOSE t \in P : TRUE}, up))

\* 1, 0 or -1: the sign of the polynomial's value; 2 when the bounds of pi
\* and K do not decide it.
PolySign(P) ==
    IF P = {} THEN 0
    ELSE IF \A t \in P : RSign(t.c) > 0 THEN 1
    ELSE IF \A t \in P : RSign(t.c) < 0 THEN -1
    ELSE IF RSign(SumBound(P, FALSE)) > 0 THEN 1
    ELSE IF RSign(SumBound(P, TRUE)) < 0 THEN -1
    ELSE 2

----------------------------------------------------------------------------
(* Floating-point values as the reals they denote.                         *)
(*   k = "poly": the polynomial p;   k = "root": sg * sqrt(p), p not the   *)
(*   square of a monomial;   k = "pinf", "ninf", "nan": the IEEE specials; *)
(*   k = "unsupported": a real outside this number language.               *)

Num(k, sg, p) == [k |-> k, sg |-> sg, p |-> p]
Poly(P) == Num("poly", 0, P)
NaN == Num("nan", 0, {})
PInf == Num("pinf", 0, {})
NInf == Num("ninf", 0, {})
Unsupported == Num("unsupported", 0, {})
R(n, d) == Poly(PolyConst(Rat(n, d)))
Zero == Poly({})

IsFin(x) == x.k \in {"poly", "root"}
IsInf(x) == x.k \in {"pinf", "ninf"}
IsRat(x) == x.k = "poly" /\ \A t \in x.p : t.ep = 0 /\ t.ek = 0
RatOf(x) == IF x.p = {} THEN RZero ELSE TheTerm(x.p).c

\* 1, 0, -1; 2 when undecided.
Sign(x) ==
    CASE x.k = "poly" -> PolySign(x.p)
      [] x.k = "root" -> x.sg
      [] x.k = "pinf" -> 1
      [] x.k = "ninf" -> -1
      [] OTHER -> 2

InfOfSign(s) == IF s = 1 THEN PInf ELSE IF s = -1 THEN NInf ELSE NaN

\* sg * sqrt(P) in canonical form, for a polynomial P of positive value.
NormRoot(sg, P) ==
    IF P = {} \/ sg = 0 THEN Zero
    ELSE IF sg = 2 THEN Unsupported
    ELSE IF IsMono(P) /\ TheTerm(P).ep % 2 = 0 /\ TheTerm(P).ek % 2 = 0
            /\ RIsSquare(TheTerm(P).c)
    THEN Poly({Term(IF sg < 0 THEN RNeg(RSqrt(TheTerm(P).c)) ELSE RSqrt(TheTerm(P).c),
                    TheTerm(P).ep \div 2, TheTerm(P).ek \div 2)})
    ELSE Num("root", sg, P)

Neg(x) ==
    CASE x.k = "poly" -> Poly(PolyNeg(x.p))
      [] x.k = "root" -> Num("root", -x.sg, x.p)
      [] x.k = "pinf" -> NInf
      [] x.k = "ninf" -> PInf
      [] OTHER -> x

Add(x, y) ==
    CASE x.k = "nan" \/ y.k = "nan" -> NaN
      [] x.k = "unsupported" \/ y.k = "unsupported" -> Unsupported
      [] IsInf(x) /\ IsInf(y) -> IF x.k = y.k THEN x ELSE NaN
      [] IsInf(x) -> x
      [] IsInf(y) -> y
      [] x.k = "poly" /\ y.k = "poly" -> Poly(PolyAdd(x.p, y.p))
      [] x = Zero -> y
      [] y = Zero -> x
      [] OTHER -> Unsupported

Sub(x, y) == Add(x, Neg(y))

\* The square of a finite value, as a polynomial.
SquareOf(x) == IF x.k = "root" THEN x.p ELSE PolyMul(x.p, x.p)

\* x * y, given the signs sx and sy of x and y.
MulSigned(x, y, sx, sy) ==
    CASE x.k = "nan" \/ y.k = "nan" -> NaN
      [] x.k = "unsupported" \/ y.k = "unsupported" \/ sx = 2 \/ sy = 2 -> Unsupported
      [] IsInf(x) \/ IsInf(y) -> IF sx = 0 \/ sy = 0 THEN NaN ELSE InfOfSign(sx * sy)
      [] x.k = "poly" /\ y.k = "poly" -> Poly(PolyMul(x.p, y.p))
      [] OTHER -> NormRoot(sx * sy, PolyMul(SquareOf(x), SquareOf(y)))

Mul(x, y) == MulSigned(x, y, IF x.k = "nan" THEN 0 ELSE Sign(x), IF y.k = "nan" THEN 0 ELSE Sign(y))

\* 1/y under IEEE rules: 1/0 is inf, 1/inf is 0.
Recip(y) ==
    CASE y.k = "nan" \/ y.k = "unsupported" -> y
      [] IsInf(y) -> Zero
      [] y = Zero -> PInf
      [] IsMono(y.p) ->
            Num(y.k, y.sg, {Term(RInv(TheTerm(y.p).c), -TheTerm(y.p).ep, -TheTerm(y.p).ek)})
      [] OTHER -> Unsupported

\* IEEE division: x/0 is inf of x's sign, 0/0 is nan (no exception).
Div(x, y) == Mul(x, Recip(y))

\* x ** 2
Square(x) == IF x.k = "root" THEN Poly(x.p) ELSE Mul(x, x)

\* The square root of x of sign s.
SqrtSigned(x, s) ==
    CASE x.k = "nan" \/ x.k = "ninf" -> NaN
      [] x.k = "pinf" -> PInf
      [] x.k = "poly" -> IF s = -1 THEN NaN ELSE NormRoot(s, x.p)
      [] OTHER -> Unsupported

\* numpy.sqrt: nan for a negative operand (a warning, no exception).
sqrt(x) == SqrtSigned(x, Sign(x))

\* x < y; FALSE when either is nan.
Less(x, y) ==
    CASE x.k = "nan" \/ y.k = "nan" -> FALSE
      [] x.k = "pinf" \/ y.k = "ninf" -> FALSE
      [] x.k = "ninf" \/ y.k = "pinf" -> TRUE
      [] OTHER -> Sign(Sub(x, y)) = -1

GreaterEq(x, y) == x.k # "nan" /\ y.k # "nan" /\ ~Less(x, y)

Greater(x, y) == Less(y, x)

abs(x) == IF Sign(x) = -1 THEN Neg(x) ELSE x

----------------------------------------------------------------------------
(* numpy: pi, degrees, radians and the trigonometric functions, exact on   *)
(* the angles whose squared sine is rational.                               *)

pi == Poly({Term(ROne, 1, 0)})

\* x * 180/pi and x * pi/180
degrees(x) == Mul(x, Poly({Term(RInt(180), -1, 0)}))
radians(x) == Mul(x, Poly({Term(Rat(1, 180), 1, 0)}))

\* The angles, in degrees, of the trigonometric tables.
TableAngles == {-150, -135, -120, -90, -60, -45, -30, 0, 30, 45, 60, 90, 120, 135, 150, 180}

\* The acute reference angle of d and its squared sine.
RefAngle(d) == IF IAbs(d) > 90 THEN 180 - IAbs(d) ELSE IAbs(d)
SinSq(a) ==
    CASE a = 0 -> <<0, 1>> [] a = 30 -> <<1, 4>> [] a = 45 -> <<1, 2>>
      [] a = 60 -> <<3, 4>> [] a = 90 -> <<1, 1>>

SinDeg(d) == NormRoot(IF d < 0 THEN -1 ELSE 1, PolyConst(SinSq(RefAngle(d))))
CosDeg(d) == NormRoot(IF IAbs(d) > 90 THEN -1 ELSE 1, PolyConst(SinSq(90 - RefAngle(d))))
TanDeg(d) ==
    NormRoot((IF d < 0 THEN -1 ELSE 1) * (IF IAbs(d) > 90 THEN -1 ELSE 1),
             PolyConst(RDiv(SinSq(RefAngle(d)), SinSq(90 - RefAngle(d)))))

\* The angle x (radians) in degrees, when x is a rational multiple of pi.
DegOf(x) == IF x.p = {} THEN RZero ELSE RMul(TheTerm(x.p).c, RInt(180))

\* Whether x (radians) is a table angle.
IsTableAngle(x) ==
    /\ x.k = "poly"
    /\ Cardinality(x.p) <= 1
    /\ \A t \in x.p : t.ep = 1 /\ t.ek = 0
    /\ DegOf(x)[2] = 1 /\ DegOf(x)[1] \in TableAngles

sin(x) == IF x.k = "nan" \/ IsInf(x) THEN NaN
          ELSE IF IsTableAngle(x) THEN SinDeg(DegOf(x)[1]) ELSE Unsupported
cos(x) == IF x.k = "nan" \/ IsInf(x) THEN NaN
          ELSE IF IsTableAngle(x) THEN CosDeg(DegOf(x)[1]) ELSE Unsupported
tan(x) == IF x.k = "nan" \/ IsInf(x) THEN NaN
          ELSE IF IsTableAngle(x) /\ IAbs(DegOf(x)[1]) # 90
          THEN TanDeg(DegOf(x)[1]) ELSE Unsupported

\* The angle in radians whose sine has sign s and square q.
AsinOf(s, q) ==
    IF RLt(ROne, q) THEN NaN
    ELSE IF {a \in {0, 30, 45, 60, 90} : SinSq(a) = q} = {} THEN Unsupported
    ELSE Poly(PolyConst(Rat(s * (CHOOSE a \in {0, 30, 45, 60, 90} : SinSq(a) = q), 180)))

\* numpy.arcsin: the principal value, nan outside [-1, 1].
asin(x) ==
    IF x.k = "nan" \/ IsInf(x) THEN NaN
    ELSE IF ~IsFin(x) \/ ~IsRat(Poly(SquareOf(x))) THEN Unsupported
    ELSE Mul(pi, AsinOf(Sign(x), RatOf(Poly(SquareOf(x)))))

----------------------------------------------------------------------------
(* Angle/Q conversion and propagation of the resolution *)

QL2T(Q, L) == degrees(asin(Div(Mul(abs(Q), L), Mul(R(4, 1), pi))))

TL2Q(T, L) == Div(Mul(Mul(R(4, 1), pi), sin(radians(T))), L)

\* sqrt(log(256)): the constant K
FWHM_scale == Poly({Term(ROne, 0, 1)})

FWHM2sigma(s) == Div(s, FWHM_scale)

sigma2FWHM(s) == Mul(s, FWHM_scale)

dTdL2dQ(T, dT, L, dL) ==
    LET Tr == radians(T)
        dTr == radians(dT)
        dQ == Mul(Div(Mul(R(4, 1), pi), L),
                  sqrt(Add(Square(Div(Mul(sin(Tr), dL), L)),
                           Square(Mul(cos(Tr), dTr)))))
    IN  FWHM2sigma(dQ)

dQdT2dLoL(Q, dQ, T, dT) ==
    sqrt(Sub(Square(Div(sigma2FWHM(dQ), Q)),
             Square(Div(radians(dT), tan(radians(T))))))

\* The divergence left as the ratio dT/tan(T).
dQdL2dT_notan(Q, dQ, L, dL) ==
    <<QL2T(Q, L),
      degrees(sqrt(Sub(Square(Div(sigma2FWHM(dQ), Q)), Square(Div(dL, L)))))>>

dQdL2dT(Q, dQ, L, dL) ==
    LET T == QL2T(Q, L)
        dT == degrees(Mul(sqrt(Sub(Square(Div(sigma2FWHM(dQ), Q)),
                                   Square(Div(dL, L)))),
                          tan(radians(T))))
    IN  <<T, dT>>

----------------------------------------------------------------------------
(* Results of a call, and Python's scalar-or-pair arguments *)

\* A call returns the value v or raises the exception exc.
Return(v) == [st |-> "return", v |-> v, exc |-> "none"]
Raise(exc) == [st |-> "raise", v |-> <<>>, exc |-> exc]

None == [kind |-> "None", v |-> <<>>]
Scalar(x) == [kind |-> "scalar", v |-> <<x>>]
Pair(a, b) == [kind |-> "pair", v |-> <<a, b>>]

\* try: a, b = s / except TypeError: a = b = s
Unpack(s) == IF s.kind = "pair" THEN s.v ELSE <<s.v[1], s.v[1]>>

RECURSIVE NumPow(_, _)
NumPow(x, n) == IF n = 0 THEN R(1, 1) ELSE Mul(x, NumPow(x, n - 1))

----------------------------------------------------------------------------
(* Wavelength bins *)

\* ceil(log(ratio)/log(step)) for step > 1 and ratio > 0: the least n with
\* step^n >= ratio.
RECURSIVE CeilLogUp(_, _, _)
CeilLogUp(ratio, step, n) ==
    IF GreaterEq(NumPow(step, n), ratio) THEN n ELSE CeilLogUp(ratio, step, n + 1)

RECURSIVE CeilLogDown(_, _, _)
CeilLogDown(ratio, step, n) ==
    IF Less(Mul(ratio, NumPow(step, n + 1)), R(1, 1))
    THEN CeilLogDown(ratio, step, n + 1) ELSE -n

CeilLog(ratio, step) ==
    IF GreaterEq(ratio, R(1, 1)) THEN CeilLogUp(ratio, step, 0)
    ELSE CeilLogDown(ratio, step, 0)

bins(low, high, dLoL) ==
    LET step == Add(R(1, 1), dLoL)
        n == CeilLog(Div(high, low), step)
        edges == [i \in 1..(IF n + 1 > 0 THEN n + 1 ELSE 0) |-> Mul(low, NumPow(step, i - 1))]
        L == [i \in 1..(IF Len(edges) > 0 THEN Len(edges) - 1 ELSE 0) |->
                Div(Add(edges[i], edges[i + 1]), R(2, 1))]
    IN  L

\* The centers are indexed from 1: L[1] is Python's L[0].
binwidths(L) ==
    IF Len(L) < 2 THEN Raise("IndexError")
    ELSE LET dLoL == IF Greater(L[2], L[1])
                     THEN Sub(Div(L[2], L[1]), R(1, 1))
                     ELSE Sub(Div(L[1], L[2]), R(1, 1))
             dL == [i \in 1..Len(L) |->
                      Mul(Div(Mul(R(2, 1), dLoL), Add(R(2, 1), dLoL)), L[i])]
         IN  Return(dL)

binedges(L) ==
    IF Len(L) < 2 THEN Raise("IndexError")
    ELSE LET up == Greater(L[2], L[1])
             dLoL == IF up THEN Sub(Div(L[2], L[1]), R(1, 1))
                     ELSE Sub(Div(L[1], L[2]), R(1, 1))
             last == IF up THEN Add(R(1, 1), dLoL)
                     ELSE Div(R(1, 1), Add(R(1, 1), dLoL))
             E == [i \in 1..Len(L) |-> Div(Mul(L[i], R(2, 1)), Add(R(2, 1), dLoL))]
         IN  Return(Append(E, Mul(E[Len(E)], last)))

----------------------------------------------------------------------------
(* Slit divergence *)

\* Line 394: dT = degrees(0.5*(s1+s2)/(d1-d2)).  With slits and distances
\* Python floats the division is Python's and raises on a zero divisor;
\* with numpy slit values (numpy = TRUE) it is IEEE division.
SlitDivergence(s1, s2, d1, d2, numpy) ==
    IF ~numpy /\ Sub(d1, d2) = Zero THEN Raise("ZeroDivisionError")
    ELSE Return(degrees(Div(Mul(R(1, 2), Add(s1, s2)), Sub(d1, d2))))

\* Lines 399 and 405: the divergence when the sample is the second slit.
SampleDivergence(s1, sample_s, d1) ==
    degrees(Div(Mul(R(1, 2), Add(s1, sample_s)), d1))

\* Line 397: sample_s = sample_width * sin(radians(T))
SampleProjection(sample_width, T) == Mul(sample_width, sin(radians(T)))

\* The sample taken as the limit at equality too.
SampleLimits_orEqual(sample_s, s2) == Less(sample_s, s2) \/ sample_s = s2

\* Line 399: if sample_s < s2
SampleLimits(sample_s, s2) == Less(sample_s, s2)

\* The mask taken at equality too.
SampleMask_orEqual(sample_s, s2) ==
    {i \in 1..Len(sample_s) : Less(sample_s[i], s2) \/ sample_s[i] = s2}

\* Line 401: idx = sample_s < s2
SampleMask(sample_s, s2) == {i \in 1..Len(sample_s) : Less(sample_s[i], s2)}

\* isscalar(sample_s): the plain branch.
divergence_scalar(T, slits, distance, sample_width, sample_broadening, numpy) ==
    LET d1 == distance[1]
        d2 == distance[2]
        s1 == Unpack(slits)[1]
        s2 == Unpack(slits)[2]
        dT0 == SlitDivergence(s1, s2, d1, d2, numpy)
        sample_s == SampleProjection(sample_width, T)
        dT == IF SampleLimits(sample_s, s2) THEN SampleDivergence(s1, sample_s, d1)
              ELSE dT0.v
    IN  IF dT0.st = "raise" THEN dT0 ELSE Return(Add(dT, sample_broadening))

\* not isscalar(sample_s): the index mask.
divergence_array(T, slits, distance, sample_width, sample_broadening, numpy) ==
    LET d1 == distance[1]
        d2 == distance[2]
        s1 == Unpack(slits)[1]
        s2 == Unpack(slits)[2]
        dT0 == SlitDivergence(s1, s2, d1, d2, numpy)
        sample_s == [i \in 1..Len(T) |-> SampleProjection(sample_width, T[i])]
        idx == SampleMask(sample_s, s2)
        s1a == [i \in 1..Len(T) |-> Mul(R(1, 1), s1)]
        dTa == [i \in 1..Len(T) |-> Mul(R(1, 1), dT0.v)]
        dT == [i \in 1..Len(T) |->
                 IF i \in idx THEN SampleDivergence(s1a[i], sample_s[i], d1) ELSE dTa[i]]
    IN  IF dT0.st = "raise" THEN dT0
        ELSE Return([i \in 1..Len(T) |-> Add(dT[i], sample_broadening)])

\* T is a scalar (isseq = FALSE) or a sequence of angles.
divergence(isseq, T, slits, distance, sample_width, sample_broadening, numpy) ==
    IF isseq
    THEN divergence_array(T, slits, distance, sample_width, sample_broadening, numpy)
    ELSE divergence_scalar(T, slits, distance, sample_width, sample_broadening, numpy)

----------------------------------------------------------------------------
(* The fixed/opening/fixed slit policy *)

\* s[idx] = v: the elements of s at the indices of idx overwritten.
Assign(s, idx, v) == [i \in 1..Len(s) |-> IF i \in idx THEN v[i] ELSE s[i]]

\* ones_like(T) * b
Filled(T, b) == [i \in 1..Len(T) |-> Mul(R(1, 1), b)]

\* Lines 447-452: (b1, b2), the slits below Tlo.
SlitsBelowOf(slits_below, slits_at_Tlo) ==
    Unpack(IF slits_below = None THEN slits_at_Tlo ELSE slits_below)

\* The opening region taken to start strictly above Tlo.
OpeningMask_strict(T, Tlo) == {i \in 1..Len(T) : Greater(abs(T[i]), Tlo)}

\* Line 461: idx = abs(T) >= Tlo
OpeningMask(T, Tlo) == {i \in 1..Len(T) : GreaterEq(abs(T[i]), Tlo)}

\* Lines 462-463: m * T[idx]/Tlo
Opening(m, T, Tlo) == [i \in 1..Len(T) |-> Div(Mul(m, T[i]), Tlo)]

\* The slits above Thi defaulting to slits_at_Tlo itself.
SlitsAboveOf_unscaled(slits_above, m, Tlo, Thi) ==
    Unpack(IF slits_above = None THEN Pair(m[1], m[2]) ELSE slits_above)

\* Lines 466-471: (t1, t2), the slits above Thi.
SlitsAboveOf(slits_above, m, Tlo, Thi) ==
    Unpack(IF slits_above = None
           THEN Pair(Div(Mul(m[1], Thi), Tlo), Div(Mul(m[2], Thi), Tlo))
           ELSE slits_above)

\* Line 472: idx = abs(T) > Thi
AboveMask(T, Thi) == {i \in 1..Len(T) : Greater(abs(T[i]), Thi)}

\* One of s1, s2: filled with b, then overwritten with m*T/Tlo from Tlo on,
\* then with t beyond Thi.
SlitSeq(T, b, m, t, Tlo, Thi) ==
    Assign(Assign(Filled(T, b), OpeningMask(T, Tlo), Opening(m, T, Tlo)),
           AboveMask(T, Thi), [i \in 1..Len(T) |-> t])

slit_widths(T, slits_at_Tlo, Tlo, Thi, slits_below, slits_above) ==
    <<SlitSeq(T, SlitsBelowOf(slits_below, slits_at_Tlo)[1], Unpack(slits_at_Tlo)[1],
              SlitsAboveOf(slits_above, Unpack(slits_at_Tlo), Tlo, Thi)[1], Tlo, Thi),
      SlitSeq(T, SlitsBelowOf(slits_below, slits_at_Tlo)[2], Unpack(slits_at_Tlo)[2],
              SlitsAboveOf(slits_above, Unpack(slits_at_Tlo), Tlo, Thi)[2], Tlo, Thi)>>

----------------------------------------------------------------------------
(* The calls a client makes.  op is the function called last, args its     *)
(* arguments and res what it returned or raised; "none": nothing called.   *)

\* Bounds of the inputs drawn.
MaxLen == 2
MaxT == 2
MaxWidth == 2
MaxLow == 3
MaxHigh == 6
MaxDT == 2
MaxL == 2
MaxDL == 2

\* Default of Tlo and Thi.
DefaultT == 90

SeqsUpTo(S, n) == UNION {[1..m -> S] : m \in 1..n}

\* slit_widths: angles of both signs up to beyond the largest threshold;
\* thresholds Tlo <= Thi, one pair out of order and the defaults; slit
\* settings.
SlitAngles == {R(t, 1) : t \in (-MaxT)..(MaxT + 1)}
Thresholds == UNION {{<<R(lo, 1), R(hi, 1)>> : hi \in lo..MaxT} : lo \in 1..MaxT}
                  \cup {<<R(MaxT, 1), R(1, 1)>>}
                  \cup {<<R(DefaultT, 1), R(DefaultT, 1)>>}
SlitsAtTlo == {Scalar(R(2, 1)), Pair(R(2, 1), R(3, 1))}
SlitsBelowAbove == {<<None, None>>, <<Scalar(R(1, 1)), Pair(R(7, 1), R(9, 1))>>,
                    <<Pair(R(1, 1), R(5, 1)), None>>, <<None, Scalar(R(7, 1))>>}

\* divergence: angles with a rational sine, slits, distances d1 > d2,
\* d1 = d2 and d1 < d2, sample widths and broadenings
DivAngles == {R(t, 1) : t \in {-30, 0, 30, 90}}
DivSlits == {Scalar(R(1, 1)), Pair(R(1, 1), R(2, 1)), Pair(R(2, 1), R(1, 1))}
Distances == {<<R(2, 1), R(1, 1)>>, <<R(1, 1), R(1, 1)>>, <<R(1, 1), R(2, 1)>>}
SampleWidths == {R(w, 1) : w \in 1..MaxWidth} \cup {PInf}
Broadenings == {R(-1, 1), R(0, 1)}

\* bins
BinRatios == {R(1, 2), R(1, 1), R(2, 1)}

\* resolution: angles whose sine and cosine have rational squares
ResAngles == {R(t, 1) : t \in {-60, -30, 0, 30, 45, 60, 120, 135}}

Reverse(s) == [i \in 1..Len(s) |-> s[Len(s) + 1 - i]]

Init == op = "none" /\ args = <<>> /\ res = <<>>

Call_slit_widths ==
    /\ op = "none"
    /\ \E T \in SeqsUpTo(SlitAngles, MaxLen), th \in Thresholds, at \in SlitsAtTlo,
          ba \in SlitsBelowAbove :
          /\ args' = [T |-> T, slits_at_Tlo |-> at, Tlo |-> th[1], Thi |-> th[2],
                      slits_below |-> ba[1], slits_above |-> ba[2]]
          /\ res' = Return(slit_widths(T, at, th[1], th[2], ba[1], ba[2]))
    /\ op' = "slit_widths"

\* divergence with a scalar angle: isscalar(sample_s) holds.
Call_divergence ==
    /\ op = "none"
    /\ \E T \in DivAngles, slits \in DivSlits, distance \in Distances,
          w \in SampleWidths, sb \in Broadenings, numpy \in BOOLEAN :
          /\ args' = [T |-> T, slits |-> slits, distance |-> distance,
                      sample_width |-> w, sample_broadening |-> sb, numpy |-> numpy]
          /\ res' = divergence(FALSE, T, slits, distance, w, sb, numpy)
    /\ op' = "divergence"

\* divergence with a sequence of angles.
Call_divergence_seq ==
    /\ op = "none"
    /\ \E T \in SeqsUpTo(DivAngles, MaxLen), slits \in DivSlits, distance \in Distances,
          w \in SampleWidths, sb \in Broadenings, numpy \in BOOLEAN :
          /\ args' = [T |-> T, slits |-> slits, distance |-> distance,
                      sample_width |-> w, sample_broadening |-> sb, numpy |-> numpy]
          /\ res' = divergence(TRUE, T, slits, distance, w, sb, numpy)
    /\ op' = "divergence_seq"

Call_bins ==
    /\ op = "none"
    /\ \E low \in 1..MaxLow, high \in 1..MaxHigh, dLoL \in BinRatios :
          /\ args' = [low |-> R(low, 1), high |-> R(high, 1), dLoL |-> dLoL]
          /\ res' = Return(bins(R(low, 1), R(high, 1), dLoL))
    /\ op' = "bins"

\* The centers bins returned, as they are or in descending order.
Call_binwidths ==
    /\ op = "bins"
    /\ \E rev \in BOOLEAN :
          LET L == IF rev THEN Reverse(res.v) ELSE res.v
          IN  /\ args' = [L |-> L, rev |-> rev, low |-> args.low, high |-> args.high,
                          dLoL |-> args.dLoL]
              /\ res' = binwidths(L)
    /\ op' = "binwidths"

Call_binedges ==
    /\ op = "bins"
    /\ \E rev \in BOOLEAN :
          LET L == IF rev THEN Reverse(res.v) ELSE res.v
          IN  /\ args' = [L |-> L, rev |-> rev, low |-> args.low, high |-> args.high,
                          dLoL |-> args.dLoL]
              /\ res' = binedges(L)
    /\ op' = "binedges"

\* Q and its resolution from angle, divergence, wavelength and dispersion.
Call_dTdL2dQ ==
    /\ op = "none"
    /\ \E T \in ResAngles, dT \in 1..MaxDT, L \in 1..MaxL, dL \in 1..MaxDL :
          /\ args' = [T |-> T, dT |-> R(dT, 1), L |-> R(L, 1), dL |-> R(dL, 1),
                      Q |-> TL2Q(T, R(L, 1))]
          /\ res' = Return(dTdL2dQ(T, R(dT, 1), R(L, 1), R(dL, 1)))
    /\ op' = "dTdL2dQ"

\* The Q resolution just computed, inverted with a wavelength dispersion.
Call_dQdL2dT ==
    /\ op = "dTdL2dQ"
    /\ \E dL \in 1..MaxDL :
          /\ args' = [Q |-> args.Q, dQ |-> res.v, L |-> args.L, dL |-> R(dL, 1),
                      T0 |-> args.T, dT0 |-> args.dT, dL0 |-> args.dL]
          /\ res' = Return(dQdL2dT(args.Q, res.v, args.L, R(dL, 1)))
    /\ op' = "dQdL2dT"

\* The Q resolution just computed, inverted with an angular divergence.
Call_dQdT2dLoL ==
    /\ op = "dTdL2dQ"
    /\ \E dT \in 1..MaxDT :
          /\ args' = [Q |-> args.Q, dQ |-> res.v, T |-> args.T, dT |-> R(dT, 1),
                      L0 |-> args.L, dT0 |-> args.dT, dL0 |-> args.dL]
          /\ res' = Return(dQdT2dLoL(args.Q, res.v, args.T, R(dT, 1)))
    /\ op' = "dQdT2dLoL"

\* The angle of Q, or of a Q beyond the accessible range.
Call_QL2T ==
    /\ op = "dTdL2dQ"
    /\ \E scale \in {1, 2} :
          /\ args' = [Q |-> Mul(R(scale, 1), args.Q), L |-> args.L, T0 |-> args.T]
          /\ res' = Return(QL2T(Mul(R(scale, 1), args.Q), args.L))
    /\ op' = "QL2T"

Done ==
    /\ op # "none"
    /\ op' = "none" /\ args' = <<>> /\ res' = <<>>

NextSlits == Call_slit_widths \/ Done
NextDiv == Call_divergence \/ Call_divergence_seq \/ Done
NextBins == Call_bins \/ Call_binwidths \/ Call_binedges \/ Done
NextRes == Call_dTdL2dQ \/ Call_dQdL2dT \/ Call_dQdT2dLoL \/ Call_QL2T \/ Done

Next == NextSlits \/ NextDiv \/ NextBins \/ NextRes

SpecSlits == Init /\ [][NextSlits]_vars
SpecDiv == Init /\ [][NextDiv]_vars
SpecBins == Init /\ [][NextBins]_vars
SpecRes == Init /\ [][NextRes]_vars
Spec == Init /\ [][Next]_vars

----------------------------------------------------------------------------
(* The properties claimed of slit_widths *)

\* The slit j the fixed/opening/fixed policy sets at the angle x, for the
\* arguments a of the call.
PolicySlit(j, x, a) ==
    IF Less(abs(x), a.Tlo)
    THEN Unpack(IF a.slits_below = None THEN a.slits_at_Tlo ELSE a.slits_below)[j]
    ELSE IF Greater(abs(x), a.Thi)
    THEN IF a.slits_above = None
         THEN Div(Mul(Unpack(a.slits_at_Tlo)[j], a.Thi), a.Tlo)
         ELSE Unpack(a.slits_above)[j]
    ELSE Div(Mul(Unpack(a.slits_at_Tlo)[j], x), a.Tlo)

\* C1: for 0 < Tlo <= Thi, each element of s1 and s2 is slits_below (by
\* default slits_at_Tlo) where |T| < Tlo, slits_at_Tlo * T/Tlo where
\* Tlo <= |T| <= Thi, and slits_above (by default slits_at_Tlo * Thi/Tlo)
\* where |T| > Thi; a scalar setting goes to both slits.
C1_Policy ==
    (op = "slit_widths" /\ ~Less(args.Thi, args.Tlo)) =>
        \A j \in 1..2 :
            /\ Len(res.v[j]) = Len(args.T)
            /\ \A i \in 1..Len(args.T) : res.v[j][i] = PolicySlit(j, args.T[i], args)

\* Angles exactly at Tlo and at Thi, with all three settings given and
\* different: both get the opening value.
C1_Witness ==
    /\ op = "slit_widths"
    /\ Less(args.Tlo, args.Thi)
    /\ args.slits_at_Tlo = Pair(R(2, 1), R(3, 1))
    /\ args.slits_below = Scalar(R(1, 1))
    /\ args.slits_above = Pair(R(7, 1), R(9, 1))
    /\ args.T = <<args.Tlo, args.Thi>>
    /\ res.v[1] = <<R(2, 1), Div(Mul(R(2, 1), args.Thi), args.Tlo)>>
    /\ res.v[2] = <<R(3, 1), Div(Mul(R(3, 1), args.Thi), args.Tlo)>>

NegSeq(T) == [i \in 1..Len(T) |-> Neg(T[i])]

\* C2: the slits returned for the angles -T are the slits returned for T.
C2_Symmetric ==
    op = "slit_widths" =>
        slit_widths(NegSeq(args.T), args.slits_at_Tlo, args.Tlo, args.Thi,
                    args.slits_below, args.slits_above) = res.v

\* C3: for Tlo <= Thi, with slits_below not given the slits at T = Tlo are
\* slits_at_Tlo, the slits returned at every |T| < Tlo; with slits_above not
\* given the slits at T = Thi are the slits returned at every |T| > Thi.
C3_Continuous ==
    (op = "slit_widths" /\ ~Less(args.Thi, args.Tlo)) =>
        \A j \in 1..2 : \A i \in 1..Len(args.T) :
            /\ (args.slits_below = None /\ args.T[i] = args.Tlo) =>
                  /\ res.v[j][i] = Unpack(args.slits_at_Tlo)[j]
                  /\ \A k \in 1..Len(args.T) :
                        Less(abs(args.T[k]), args.Tlo) => res.v[j][k] = res.v[j][i]
            /\ (args.slits_above = None /\ args.T[i] = args.Thi) =>
                  \A k \in 1..Len(args.T) :
                        Greater(abs(args.T[k]), args.Thi) => res.v[j][k] = res.v[j][i]

\* An angle at Thi > Tlo next to one beyond Thi, and an angle at Tlo next to
\* one below Tlo, with the defaults in force.
C3_Witness ==
    /\ op = "slit_widths"
    /\ args.slits_above = None
    /\ Less(args.Tlo, args.Thi)
    /\ Len(args.T) = 2
    /\ args.T[1] = args.Thi
    /\ Greater(abs(args.T[2]), args.Thi)
    /\ res.v[1][1] = res.v[1][2]
    /\ res.v[1][1] # Unpack(args.slits_at_Tlo)[1]

----------------------------------------------------------------------------
(* The properties claimed of divergence *)

\* degrees(0.5*(s1+s2)/(d1-d2)) + sample_broadening for the arguments a.
SlitLimited(a) ==
    Add(degrees(Div(Mul(R(1, 2), Add(Unpack(a.slits)[1], Unpack(a.slits)[2])),
                    Sub(a.distance[1], a.distance[2]))),
        a.sample_broadening)

\* degrees(0.5*(s1+p)/d1) + sample_broadening for the arguments a.
SampleLimited(a, p) ==
    Add(degrees(Div(Mul(R(1, 2), Add(Unpack(a.slits)[1], p)), a.distance[1])),
        a.sample_broadening)

\* p = sample_width * sin(T) at the angle x.
Projection(a, x) == Mul(a.sample_width, sin(radians(x)))

\* C4: with sample_width infinite the result is the slit-limited value
\* at every angle.
C4_NoTruncation ==
    (op \in {"divergence", "divergence_seq"} /\ args.sample_width = PInf
        /\ Greater(args.distance[1], args.distance[2])) =>
        res = Return(IF op = "divergence_seq"
                     THEN [i \in 1..Len(args.T) |-> SlitLimited(args)]
                     ELSE SlitLimited(args))

\* r is the value selected at the angle x.
Selects(a, x, r) ==
    /\ Less(Projection(a, x), Unpack(a.slits)[2]) => r = SampleLimited(a, Projection(a, x))
    /\ GreaterEq(Projection(a, x), Unpack(a.slits)[2]) => r = SlitLimited(a)

\* C5: a call with d1 > d2 returns, and what a call returns is, at each
\* position, degrees(0.5*(s1+p)/d1) + sample_broadening where p < s2 and
\* degrees(0.5*(s1+s2)/(d1-d2)) + sample_broadening where p >= s2.
C5_Selection ==
    op \in {"divergence", "divergence_seq"} =>
        /\ Greater(args.distance[1], args.distance[2]) => res.st = "return"
        /\ res.st = "return" =>
              IF op = "divergence_seq"
              THEN /\ Len(res.v) = Len(args.T)
                   /\ \A i \in 1..Len(args.T) : Selects(args, args.T[i], res.v[i])
              ELSE Selects(args, args.T, res.v)

\* p = s2 exactly, with a negative broadening: the slit-limited value.
C5_Witness ==
    /\ op = "divergence"
    /\ Greater(args.distance[1], args.distance[2])
    /\ Projection(args, args.T) = Unpack(args.slits)[2]
    /\ args.sample_broadening = R(-1, 1)
    /\ res = Return(SlitLimited(args))
    /\ SlitLimited(args) # SampleLimited(args, Projection(args, args.T))

\* C6: element i of the result for a sequence of angles is the result for
\* the scalar T[i]; the two calls raise together.
C6_PathsAgree ==
    op = "divergence_seq" =>
        \A i \in 1..Len(args.T) :
            divergence(FALSE, args.T[i], args.slits, args.distance, args.sample_width,
                       args.sample_broadening, args.numpy)
                = IF res.st = "raise" THEN res ELSE Return(res.v[i])

\* A sequence with p = s2 at the first angle and p < s2 at the second.
C6_Witness ==
    /\ op = "divergence_seq"
    /\ res.st = "return"
    /\ Len(args.T) = 2
    /\ Projection(args, args.T[1]) = Unpack(args.slits)[2]
    /\ Less(Projection(args, args.T[2]), Unpack(args.slits)[2])
    /\ res.v[1] = SlitLimited(args)
    /\ res.v[2] = SampleLimited(args, Projection(args, args.T[2]))
    /\ res.v[1] # res.v[2]

----------------------------------------------------------------------------
(* The properties claimed of the wavelength bins *)

\* C7: for the centers of bins(low, high, dLoL) with 0 < low < high and
\* dLoL > 0, binwidths(centers)[i] = binedges(centers)[i+1] - binedges(centers)[i].
C7_WidthsAreEdgeDiffs ==
    (op = "binwidths" /\ ~args.rev /\ Less(args.low, args.high)) =>
        /\ res.st = "return"
        /\ binedges(args.L).st = "return"
        /\ \A i \in 1..Len(args.L) :
              res.v[i] = Sub(binedges(args.L).v[i + 1], binedges(args.L).v[i])

\* C8: every call completes with a result.
C8_NeverRaises == op # "none" => res.st = "return"

\* C10: binedges returns len(L)+1 edges and every center, of an ascending
\* or a descending sequence, is the mean of its two edges.
C10_CentersHalfWay ==
    (op = "binedges" /\ Len(args.L) >= 2) =>
        /\ res.st = "return"
        /\ Len(res.v) = Len(args.L) + 1
        /\ \A i \in 1..Len(args.L) :
              args.L[i] = Div(Add(res.v[i], res.v[i + 1]), R(2, 1))

----------------------------------------------------------------------------
(* The property claimed of the propagation of the resolution *)

\* C9: for 0 < T < 90 and dT, L, dL > 0,
\* dQdL2dT(TL2Q(T,L), dTdL2dQ(T,dT,L,dL), L, dL) = (T, dT).
C9_RoundTrip ==
    (op = "dQdL2dT" /\ args.dL = args.dL0
        /\ Less(Zero, args.T0) /\ Less(args.T0, R(90, 1))) =>
        res.v = <<args.T0, args.dT0>>

\* The round trip made at 30 degrees with dT = 2 and dL = L = 2.
C9_Witness ==
    /\ op = "dQdL2dT"
    /\ args.dL = args.dL0
    /\ args.T0 = R(30, 1)
    /\ args.dT0 = R(2, 1)
    /\ args.L = R(2, 1)
    /\ args.dL = R(2, 1)
    /\ args.dQ.k = "root"
    /\ res.v = <<R(30, 1), R(2, 1)>>

====
